---- MODULE Spec2Model ----
(***************************************************************************)
(* Model of app.py: the RVOL scanner (scanner tab) and the live monitor    *)
(* (monitor tab) with their session state, watchlist and monitor_data.     *)
(*                                                                         *)
(* Script runs.  Streamlit runs the script top to bottom on every          *)
(* interaction; pc says where a run stands.  From "idle" a run either      *)
(* scans (pc = "scanner": the scan's locals are live and the take-over     *)
(* button can act), edits the watchlist, or runs a monitoring cycle        *)
(* (pc = "monitor": the cycle's rows are live and the remove button can    *)
(* act).  Leaving a tab, a rerun and the end of the run drop the locals.   *)
(* Each handler is one action.  st.session_state.last_scan_results is a    *)
(* copy of scan_results that nothing reads; scan_results stands for both.  *)
(*                                                                         *)
(* Data source.  Within one run the fetch of a symbol gives one result,    *)
(* drawn from a small family of frames: series with enough history, a      *)
(* series with zero trailing volume, a one-bar series, a series without a  *)
(* complete row, frames in several column layouts, and failed downloads.   *)
(*                                                                         *)
(* Numbers.  Python floats are modelled as exact rationals <<num, den>>,   *)
(* kept normalised so that equal values are equal tuples.  round(x, n) is  *)
(* modelled as rounding to the nearest multiple of 10^-n, an exact tie     *)
(* going to the even neighbour; int(x) truncates toward zero.  Closes are  *)
(* positive, volumes are not negative.                                     *)
(***************************************************************************)
EXTENDS Integers, Sequences, FiniteSets, TLC

\* ------------------------------------------------------------------------
\* Bounds of the model
\* ------------------------------------------------------------------------
\* longest symbol list typed into a text area (scanner input, watchlist edit)
MaxSymbols == 2
\* number of monitoring cycles explored (the clock behind last_checked); no
\* script run starts once the clock has reached it
MaxClock == 2

\* ------------------------------------------------------------------------
\* Program constants
\* ------------------------------------------------------------------------
\* st.number_input(..., min_value=5, ...) of the lookback widget
MinLookback == 5
\* digits kept by round(..., 3) for %Change, Delta Price %, Delta RVOL, RVOL
PctDigits == 3
\* digits kept by round(rvol, 2) in a scan result
RvolDigits == 2
\* digits kept by round(last_close, 4)
PriceDigits == 4

Symbols == {"A", "B"}

\* ------------------------------------------------------------------------
\* Rational arithmetic
\* ------------------------------------------------------------------------
Abs(x) == IF x < 0 THEN -x ELSE x

RECURSIVE GCD(_, _)
GCD(a, b) == IF b = 0 THEN a ELSE GCD(b, a % b)

Rat(n, d) ==
    LET s == IF d < 0 THEN -1 ELSE 1
        g == GCD(Abs(n), Abs(d))
    IN  <<(s * n) \div g, (s * d) \div g>>

RInt(n) == <<n, 1>>
Zero == RInt(0)

RAdd(x, y) == Rat(x[1] * y[2] + y[1] * x[2], x[2] * y[2])
RSub(x, y) == Rat(x[1] * y[2] - y[1] * x[2], x[2] * y[2])
RMul(x, y) == Rat(x[1] * y[1], x[2] * y[2])
RDiv(x, y) == Rat(x[1] * y[2], x[2] * y[1])
RLt(x, y) == x[1] * y[2] < y[1] * x[2]
RLe(x, y) == x[1] * y[2] <= y[1] * x[2]
RGt(x, y) == RLt(y, x)
RGe(x, y) == RLe(y, x)

RECURSIVE Pow10(_)
Pow10(n) == IF n = 0 THEN 1 ELSE 10 * Pow10(n - 1)

\* round(x, digits)
Round(x, digits) ==
    LET u == Pow10(digits)
        n == x[1] * u
        fl == n \div x[2]
        r2 == 2 * (n % x[2])
    IN  IF r2 < x[2] THEN Rat(fl, u)
        ELSE IF r2 > x[2] THEN Rat(fl + 1, u)
        ELSE IF fl % 2 = 0 THEN Rat(fl, u) ELSE Rat(fl + 1, u)

\* int(x)
Trunc(x) == IF x[1] >= 0 THEN x[1] \div x[2] ELSE -((-x[1]) \div x[2])

RECURSIVE SumVol(_)
SumVol(rows) ==
    IF rows = <<>> THEN 0 ELSE rows[1].Volume + SumVol(Tail(rows))

\* Series.mean() of the Volume column of a non-empty slice
Mean(rows) == Rat(SumVol(rows), Len(rows))

\* rows.iloc[a:b] for 0 <= a <= b <= len, in Python's 0-based half-open form
Slice(rows, a, b) == SubSeq(rows, a + 1, b)

\* ------------------------------------------------------------------------
\* The market-data source (yfinance) and what it can answer
\* ------------------------------------------------------------------------
\* a missing cell of a downloaded frame
NaN == -1

\* closes are held in ticks of 0.01
Price(ticks) == Rat(ticks, 100)

\* a frame: MultiIndex flag, column keys (tuples of levels), rows of cells
Frame(multi, cols, rows) == [multi |-> multi, cols |-> cols, rows |-> rows]

\* df.empty
IsEmpty(df) == df.rows = <<>> \/ df.cols = {}

\* n bars; volume f in the first bar, m in the middle ones, l in the last;
\* close cp in the bar before the last and cl in the last
Bars(n, f, m, l, cp, cl) ==
    [i \in 1..n |->
        [Close |-> IF i = n THEN cl ELSE IF i = n - 1 THEN cp ELSE 1000,
         Volume |-> IF i = n THEN l ELSE IF i = 1 THEN f ELSE m]]

FlatCols == {<<"Close">>, <<"Volume">>}

\* series long enough for some lookback of the widget
LiquidRows ==
    {Bars(MinLookback + 1, c[1], 10, c[2], c[3], c[4]) :
        c \in {<<10, 20, 1000, 1001>>, <<10, 30, 1001, 1002>>, <<60, 30, 1000, 1001>>}}

\* series whose trailing volume is zero
ZeroVolRows == {Bars(MinLookback + 1, 0, 0, 30, 1000, 1001)}

\* series whose last close lies above the price range
PriceyRows == {Bars(MinLookback + 1, 10, 10, 30, 2499, 2500)}

\* series with too little history
ShortRows == {Bars(1, 10, 10, 30, 1000, 1002)}

\* series whose rows all miss a cell
HollowRows == {<<[Close |-> 1000, Volume |-> NaN], [Close |-> NaN, Volume |-> 10]>>}

Frames ==
    {Frame(FALSE, FlatCols, r) :
        r \in LiquidRows \cup ZeroVolRows \cup PriceyRows \cup ShortRows \cup HollowRows}
    \cup {Frame(FALSE, {<<"Adj Close">>, <<"Volume">>}, r) : r \in ShortRows}
    \cup {Frame(FALSE, {<<"Open">>, <<"Volume">>}, r) : r \in ShortRows}
    \cup {Frame(TRUE, {<<"A", "Close">>, <<"A", "Volume">>}, r) : r \in ShortRows}
    \cup {Frame(TRUE, {<<"Close", "A">>, <<"Volume", "A">>}, r) : r \in ShortRows}
    \cup {Frame(TRUE, {<<"A", "Open">>, <<"A", "Volume">>}, r) : r \in ShortRows}

\* what one yf.download call can do: raise, return None, or return a frame
Raised == [multi |-> FALSE, cols |-> {}, rows |-> <<>>, answer |-> "raise"]
NoneDF == [multi |-> FALSE, cols |-> {}, rows |-> <<>>, answer |-> "none"]
Answer(df) == [multi |-> df.multi, cols |-> df.cols, rows |-> df.rows, answer |-> "df"]

\* the answers to the "1m" and the "5m" request for one symbol
Replies ==
    {<<Answer(df), Raised>> : df \in Frames}
    \cup {<<Raised, NoneDF>>, <<Answer(Frame(FALSE, FlatCols, <<>>)), Raised>>}
    \cup {<<Raised, Answer(Frame(FALSE, FlatCols, r))>> : r \in ShortRows}

\* ------------------------------------------------------------------------
\* Helpers of app.py
\* ------------------------------------------------------------------------
\* fetch_intraday: the first interval whose download is a non-empty frame
RECURSIVE fetch_intraday(_)
fetch_intraday(reply) ==
    IF reply = <<>> THEN NoneDF
    ELSE IF reply[1].answer = "df" /\ ~IsEmpty(reply[1]) THEN reply[1]
    ELSE fetch_intraday(Tail(reply))

\* "df is None or df.empty"
NoData(df) == df.answer # "df" \/ IsEmpty(df)

\* extract_close_volume: which of the two series could be located
extract_close_volume(df, sym) ==
    IF df.multi
    THEN [close |-> \/ <<sym, "Close">> \in df.cols
                    \/ <<"Close", sym>> \in df.cols
                    \/ \E k \in df.cols : k[Len(k)] = "Close",
          vol |-> \/ <<sym, "Volume">> \in df.cols
                  \/ <<"Volume", sym>> \in df.cols
                  \/ \E k \in df.cols : k[Len(k)] = "Volume"]
    ELSE [close |-> <<"Close">> \in df.cols \/ <<"Adj Close">> \in df.cols,
          vol |-> <<"Volume">> \in df.cols]

Complete(row) == row.Close # NaN /\ row.Volume # NaN

\* pd.DataFrame({"Close": close_ser, "Volume": vol_ser}).dropna()
CleanFrame(df) == SelectSeq(df.rows, Complete)

\* ------------------------------------------------------------------------
\* State
\* ------------------------------------------------------------------------
VARIABLES
    watchlist,          \* st.session_state.watchlist: list of symbols
    monitor_data,       \* st.session_state.monitor_data: symbol -> snapshot
    lookback,           \* widget: bars of the volume average
    min_rvol,           \* widget: minimum RVOL
    min_price,          \* widget: minimum price
    max_price,          \* widget: maximum price
    pc,                 \* where the script run stands: "idle", "scanner", "monitor"
    symbols_to_scan,    \* scanner tab: the symbol list of this run's scan
    fetched,            \* symbol -> what this run's fetch and clean-up gave
    scan_results,       \* scanner tab: the hits in scan order
    df_res,             \* scanner tab: the sorted result table
    monitor_results,    \* monitor tab: the rows of this run's cycle
    now                 \* the clock read by datetime.utcnow()

vars == <<watchlist, monitor_data, lookback, min_rvol, min_price, max_price,
          pc, symbols_to_scan, fetched, scan_results, df_res,
          monitor_results, now>>

\* sequences over S of length at most n
SeqUpTo(S, n) == UNION {[1..k -> S] : k \in 0..n}

Range(f) == {f[i] : i \in DOMAIN f}

\* values the widgets are set to
Lookbacks == {MinLookback}
MinRvols == {RInt(2)}
MinPrices == {RInt(2)}
MaxPrices == {RInt(20)}

\* Python's None
None == <<>>

\* the empty dict
EmptyDict == [s \in {} |-> None]

\* what the fetch, the column lookup and dropna leave of one symbol's reply
Fetch(s, reply) ==
    LET df == fetch_intraday(reply) IN
    IF NoData(df) THEN [reason |-> "NoData", tmp |-> <<>>]
    ELSE IF ~extract_close_volume(df, s).close \/ ~extract_close_volume(df, s).vol
    THEN [reason |-> "SchemaUnresolved", tmp |-> <<>>]
    ELSE [reason |-> "ok", tmp |-> CleanFrame(df)]

\* what the fetch of symbol s can leave, over all replies of the source
Fetched(s) == {Fetch(s, reply) : reply \in Replies}

\* what the fetch of any symbol can leave
Fetches == UNION {Fetched(s) : s \in Symbols}

\* ------------------------------------------------------------------------
\* Scanner tab
\* ------------------------------------------------------------------------
\* avg_vol of the scanner loop
ScanAvgVol(tmp, lb) ==
    IF lb > 0
    THEN Mean(Slice(tmp, Len(tmp) - lb, Len(tmp) - 1))
    ELSE Mean(Slice(tmp, 0, Len(tmp) - 1))

\* (c[-1] - c[-2]) / c[-2] * 100
PctChange(tmp) ==
    IF Len(tmp) >= 2
    THEN RMul(RDiv(RSub(Price(tmp[Len(tmp)].Close), Price(tmp[Len(tmp) - 1].Close)),
                   Price(tmp[Len(tmp) - 1].Close)), RInt(100))
    ELSE Zero

\* one pass of the scanner loop body: the rows it appends to scan_results
ScanSymbol(s, got, lb, minp, maxp, minr) ==
    IF got.reason # "ok" THEN <<>>
    ELSE LET tmp == got.tmp IN
      IF tmp = <<>> \/ Len(tmp) < lb + 1 THEN <<>>
      ELSE LET last_close == Price(tmp[Len(tmp)].Close)
               curr_vol == RInt(tmp[Len(tmp)].Volume)
               avg_vol == ScanAvgVol(tmp, lb)
           IN IF RLe(avg_vol, Zero) THEN <<>>
              ELSE LET rvol == RDiv(curr_vol, avg_vol) IN
                IF RLe(minp, last_close) /\ RLe(last_close, maxp) /\ RGe(rvol, minr)
                THEN <<[Symbol |-> s,
                        Price |-> Round(last_close, PriceDigits),
                        PctChange |-> Round(PctChange(tmp), PctDigits),
                        RVOL |-> Round(rvol, RvolDigits),
                        CurrentVolume |-> Trunc(curr_vol),
                        AvgVolume |-> Trunc(avg_vol)]>>
                ELSE <<>>

\* the scanner loop over symbols_to_scan
RECURSIVE ScanLoop(_, _, _, _, _, _)
ScanLoop(syms, data, lb, minp, maxp, minr) ==
    IF syms = <<>> THEN <<>>
    ELSE ScanSymbol(syms[1], data[syms[1]], lb, minp, maxp, minr)
         \o ScanLoop(Tail(syms), data, lb, minp, maxp, minr)

\* SortsBefore with the second key ascending
SortsBeforeRvolAscending(a, b) ==
    \/ RGt(a.PctChange, b.PctChange)
    \/ a.PctChange = b.PctChange /\ RLt(a.RVOL, b.RVOL)

\* row a sorts before row b: descending %Change, then descending RVOL
SortsBefore(a, b) ==
    \/ RGt(a.PctChange, b.PctChange)
    \/ a.PctChange = b.PctChange /\ RGt(a.RVOL, b.RVOL)

\* insert a row behind every row that does not sort after it
RECURSIVE InsertRow(_, _)
InsertRow(sorted, r) ==
    IF sorted = <<>> THEN <<r>>
    ELSE IF SortsBefore(r, sorted[1]) THEN <<r>> \o sorted
    ELSE <<sorted[1]>> \o InsertRow(Tail(sorted), r)

\* DataFrame.sort_values(by=["%Change","RVOL"], ascending=[False, False]):
\* a stable lexicographic sort
RECURSIVE SortValues(_)
SortValues(rows) ==
    IF rows = <<>> THEN <<>>
    ELSE InsertRow(SortValues(SubSeq(rows, 1, Len(rows) - 1)), rows[Len(rows)])

\* the locals of a script run are gone
NoLocals ==
    /\ symbols_to_scan' = <<>>
    /\ fetched' = EmptyDict
    /\ scan_results' = <<>>
    /\ df_res' = <<>>
    /\ monitor_results' = <<>>

\* "Scan starten" pressed with a non-empty symbol list
Scan ==
    /\ pc = "idle"
    /\ now < MaxClock
    /\ \E syms \in SeqUpTo(Symbols, MaxSymbols) \ {<<>>},
          lb \in Lookbacks, minp \in MinPrices, maxp \in MaxPrices, minr \in MinRvols :
       \E data \in [Range(syms) -> Fetches] :
        LET results == ScanLoop(syms, data, lb, minp, maxp, minr)
        IN  /\ symbols_to_scan' = syms
            /\ \A s \in Range(syms) : data[s] \in Fetched(s)
            /\ lookback' = lb
            /\ min_price' = minp
            /\ max_price' = maxp
            /\ min_rvol' = minr
            /\ fetched' = data
            /\ scan_results' = results
            /\ df_res' = SortValues(results)
            /\ monitor_results' = <<>>
            /\ pc' = "scanner"
            /\ UNCHANGED <<watchlist, monitor_data, now>>

\* the run moves on past a tab, or ends: the tab's locals are dead
Leave ==
    /\ pc \in {"scanner", "monitor"}
    /\ pc' = "idle"
    /\ NoLocals
    /\ UNCHANGED <<watchlist, monitor_data, lookback, min_rvol, min_price,
                   max_price, now>>

\* ------------------------------------------------------------------------
\* Scanner tab: take hits over into the monitor
\* ------------------------------------------------------------------------
\* monitor_data entry of a symbol not observed yet
Unseen == [price |-> None, rvol |-> None, last_checked |-> None]

\* d[k] = v
DictSet(d, k, v) == [x \in (DOMAIN d) \cup {k} |-> IF x = k THEN v ELSE d[x]]

\* del d[k]
DictDel(d, k) == [x \in (DOMAIN d) \ {k} |-> d[x]]

\* the loop of the take-over button over the ticked symbols
RECURSIVE AddLoop(_, _, _)
AddLoop(selected, wl, md) ==
    IF selected = <<>> THEN [watchlist |-> wl, monitor_data |-> md]
    ELSE IF selected[1] \notin Range(wl)
    THEN AddLoop(Tail(selected), Append(wl, selected[1]),
                 DictSet(md, selected[1], Unseen))
    ELSE AddLoop(Tail(selected), wl, md)

\* the rows of seq at the positions of set P, in order
RECURSIVE Pick(_, _, _)
Pick(seq, P, i) ==
    IF i > Len(seq) THEN <<>>
    ELSE (IF i \in P THEN <<seq[i]>> ELSE <<>>) \o Pick(seq, P, i + 1)

\* take-over button pressed with some rows of the result table ticked
AddSelected ==
    /\ pc = "scanner"
    /\ df_res # <<>>
    /\ \E ticked \in SUBSET (1..Len(df_res)) :
        LET selected == Pick([i \in 1..Len(df_res) |-> df_res[i].Symbol], ticked, 1)
            out == AddLoop(selected, watchlist, monitor_data)
        IN  /\ watchlist' = out.watchlist
            /\ monitor_data' = out.monitor_data
    /\ pc' = "idle"
    /\ NoLocals
    /\ UNCHANGED <<lookback, min_rvol, min_price, max_price, now>>

\* ------------------------------------------------------------------------
\* Monitor tab
\* ------------------------------------------------------------------------
\* "ensure monitor_data keys exist"
RECURSIVE EnsureKeys(_, _)
EnsureKeys(new_wl, md) ==
    IF new_wl = <<>> THEN md
    ELSE EnsureKeys(Tail(new_wl),
                    IF new_wl[1] \in DOMAIN md THEN md
                    ELSE DictSet(md, new_wl[1], Unseen))

\* "Update Watchlist" pressed; new_wl is the parsed text area
UpdateWatchlist ==
    /\ pc = "idle"
    /\ now < MaxClock
    /\ \E new_wl \in SeqUpTo(Symbols, MaxSymbols) :
        /\ watchlist' = new_wl
        /\ monitor_data' = EnsureKeys(new_wl, monitor_data)
    /\ pc' = "idle"
    /\ NoLocals
    /\ UNCHANGED <<lookback, min_rvol, min_price, max_price, now>>

Min(a, b) == IF a < b THEN a ELSE b

\* avg_vol of the monitor loop
MonitorAvgVol(tmp, lb) ==
    LET look == Min(Len(tmp) - 1, lb) IN
    IF look < 1
    THEN IF Len(tmp) > 1 THEN Mean(Slice(tmp, 0, Len(tmp) - 1))
         ELSE RInt(tmp[Len(tmp)].Volume)
    ELSE IF look > 0 THEN Mean(Slice(tmp, Len(tmp) - look - 1, Len(tmp) - 1))
         ELSE RInt(tmp[Len(tmp)].Volume)

\* curr_price, curr_vol, avg_vol, curr_rvol of the monitor loop
MonitorReading(tmp, lb) ==
    LET curr_vol == RInt(tmp[Len(tmp)].Volume)
        avg_vol == MonitorAvgVol(tmp, lb)
    IN  [price |-> Price(tmp[Len(tmp)].Close),
         vol |-> curr_vol,
         avg_vol |-> avg_vol,
         rvol |-> IF RGt(avg_vol, Zero) THEN RDiv(curr_vol, avg_vol) ELSE Zero]

\* DeltaPrice taking the change relative to the new price
DeltaPriceOverCurrent(curr_price, prev_price) ==
    IF prev_price # None
    THEN LET d == RMul(RDiv(RSub(curr_price, prev_price), curr_price), RInt(100))
         IN  [delta |-> d,
              trend |-> IF RGt(d, Zero) THEN "up"
                        ELSE IF RLt(d, Zero) THEN "down" ELSE "-"]
    ELSE [delta |-> Zero, trend |-> "-"]

\* delta_price_pct and trend against the previous price
DeltaPrice(curr_price, prev_price) ==
    IF prev_price # None
    THEN IF prev_price = Zero THEN [delta |-> None, trend |-> "-"]
         ELSE LET d == RMul(RDiv(RSub(curr_price, prev_price), prev_price), RInt(100))
              IN  [delta |-> d,
                   trend |-> IF RGt(d, Zero) THEN "up"
                             ELSE IF RLt(d, Zero) THEN "down" ELSE "-"]
    ELSE [delta |-> Zero, trend |-> "-"]

\* DeltaRvol reading an absent previous rvol as 0
DeltaRvolAgainstZero(curr_rvol, prev_rvol) ==
    RSub(curr_rvol, IF prev_rvol # None THEN prev_rvol ELSE Zero)

\* delta_rvol against the previous rvol
DeltaRvol(curr_rvol, prev_rvol) ==
    IF prev_rvol # None THEN RSub(curr_rvol, prev_rvol) ELSE Zero

\* round(x, 3) if x is not None else None
RoundOrNone(x) == IF x = None THEN None ELSE Round(x, PctDigits)

\* the snapshot the monitor loop stores for a reading at time t
Snapshot(rd, t) == [price |-> rd.price, rvol |-> rd.rvol, last_checked |-> <<t>>]

\* the row the monitor loop appends for a reading, given the previous snapshot
MonitorRow(sym, rd, prev, t) ==
    [Symbol |-> sym,
     Price |-> Round(rd.price, PriceDigits),
     DeltaPricePct |-> RoundOrNone(DeltaPrice(rd.price, prev.price).delta),
     DeltaRVOL |-> RoundOrNone(DeltaRvol(rd.rvol, prev.rvol)),
     RVOL |-> Round(rd.rvol, PctDigits),
     CurrentVol |-> Trunc(rd.vol),
     AvgVol |-> Trunc(rd.avg_vol),
     Trend |-> DeltaPrice(rd.price, prev.price).trend,
     LastChecked |-> <<t>>]

\* monitor_data.get(sym, {"price": None, "rvol": None})
GetPrev(md, sym) == IF sym \in DOMAIN md THEN md[sym] ELSE Unseen

\* MonitorSymbol storing an all-zero snapshot when there is nothing to read
MonitorSymbolZeroOnNoData(sym, got, md, rows, lb, t) ==
    IF got.reason # "ok" \/ got.tmp = <<>>
    THEN [monitor_data |->
              DictSet(md, sym, [price |-> Zero, rvol |-> Zero, last_checked |-> <<t>>]),
          rows |-> rows]
    ELSE LET rd == MonitorReading(got.tmp, lb)
             prev == GetPrev(md, sym)
         IN  [monitor_data |-> DictSet(md, sym, Snapshot(rd, t)),
              rows |-> Append(rows, MonitorRow(sym, rd, prev, t))]

\* one pass of the monitor loop body: the snapshot map and rows after it
MonitorSymbol(sym, got, md, rows, lb, t) ==
    IF got.reason # "ok" \/ got.tmp = <<>>
    THEN [monitor_data |-> md, rows |-> rows]
    ELSE LET rd == MonitorReading(got.tmp, lb)
             prev == GetPrev(md, sym)
         IN  [monitor_data |-> DictSet(md, sym, Snapshot(rd, t)),
              rows |-> Append(rows, MonitorRow(sym, rd, prev, t))]

\* MonitorLoop leaving the loop at the first symbol without data
RECURSIVE MonitorLoopBreak(_, _, _, _, _, _)
MonitorLoopBreak(watch, data, md, rows, lb, t) ==
    IF watch = <<>> THEN [monitor_data |-> md, rows |-> rows]
    ELSE IF data[watch[1]].reason # "ok" THEN [monitor_data |-> md, rows |-> rows]
    ELSE LET step == MonitorSymbol(watch[1], data[watch[1]], md, rows, lb, t)
         IN  MonitorLoopBreak(Tail(watch), data, step.monitor_data, step.rows, lb, t)

\* the monitor loop over a copy of the watchlist
RECURSIVE MonitorLoop(_, _, _, _, _, _)
MonitorLoop(watch, data, md, rows, lb, t) ==
    IF watch = <<>> THEN [monitor_data |-> md, rows |-> rows]
    ELSE LET step == MonitorSymbol(watch[1], data[watch[1]], md, rows, lb, t)
         IN  MonitorLoop(Tail(watch), data, step.monitor_data, step.rows, lb, t)

\* one monitoring cycle: a run reaches the monitor tab with a non-empty watchlist
MonitorCycle ==
    /\ pc = "idle"
    /\ watchlist # <<>>
    /\ now < MaxClock
    /\ \E lb \in Lookbacks :
       \E data \in [Range(watchlist) -> Fetches] :
        LET out == MonitorLoop(watchlist, data, monitor_data, <<>>, lb, now + 1)
        IN  /\ \A s \in Range(watchlist) : data[s] \in Fetched(s)
            /\ lookback' = lb
            /\ fetched' = data
            /\ monitor_data' = out.monitor_data
            /\ monitor_results' = out.rows
    /\ now' = now + 1
    /\ pc' = "monitor"
    /\ symbols_to_scan' = <<>>
    /\ scan_results' = <<>>
    /\ df_res' = <<>>
    /\ UNCHANGED <<watchlist, min_rvol, min_price, max_price>>

\* list.remove(r): drop the first occurrence
RECURSIVE ListRemove(_, _)
ListRemove(wl, r) ==
    IF wl = <<>> THEN <<>>
    ELSE IF wl[1] = r THEN Tail(wl)
    ELSE <<wl[1]>> \o ListRemove(Tail(wl), r)

\* the loop of the "Entfernen" button over the chosen symbols
RECURSIVE RemoveLoop(_, _, _)
RemoveLoop(remove, wl, md) ==
    IF remove = <<>> THEN [watchlist |-> wl, monitor_data |-> md]
    ELSE RemoveLoop(Tail(remove),
                    IF remove[1] \in Range(wl) THEN ListRemove(wl, remove[1]) ELSE wl,
                    IF remove[1] \in DOMAIN md THEN DictDel(md, remove[1]) ELSE md)

\* "Entfernen" pressed with some rows of the live table chosen
Remove ==
    /\ pc = "monitor"
    /\ monitor_results # <<>>
    /\ \E chosen \in SUBSET (1..Len(monitor_results)) :
        LET options == [i \in 1..Len(monitor_results) |-> monitor_results[i].Symbol]
            out == RemoveLoop(Pick(options, chosen, 1), watchlist, monitor_data)
        IN  /\ watchlist' = out.watchlist
            /\ monitor_data' = out.monitor_data
    /\ pc' = "idle"
    /\ NoLocals
    /\ UNCHANGED <<lookback, min_rvol, min_price, max_price, now>>

Init ==
    /\ watchlist = <<>>
    /\ monitor_data = EmptyDict
    /\ lookback \in Lookbacks
    /\ min_rvol \in MinRvols
    /\ min_price \in MinPrices
    /\ max_price \in MaxPrices
    /\ pc = "idle"
    /\ symbols_to_scan = <<>>
    /\ fetched = EmptyDict
    /\ scan_results = <<>>
    /\ df_res = <<>>
    /\ monitor_results = <<>>
    /\ now = 0

NextScan == Scan \/ Leave

SpecScan == Init /\ [][NextScan]_vars

\* the monitor tab alone: the watchlist is edited there and cycles run
NextMonitor ==
    \/ UpdateWatchlist
    \/ MonitorCycle
    \/ Remove
    \/ Leave

SpecMonitor == Init /\ [][NextMonitor]_vars

Next ==
    \/ Scan
    \/ AddSelected
    \/ UpdateWatchlist
    \/ MonitorCycle
    \/ Remove
    \/ Leave

Spec == Init /\ [][Next]_vars

\* ------------------------------------------------------------------------
\* Vocabulary of the properties
\* ------------------------------------------------------------------------
\* the lookback bars immediately preceding the most recent bar
TrailingBars(tmp, lb) == Slice(tmp, Len(tmp) - lb - 1, Len(tmp) - 1)

\* the most recent bar's volume
CurrentVolume(tmp) == RInt(tmp[Len(tmp)].Volume)

\* a series long enough for the lookback
EnoughHistory(tmp, lb) == lb > 0 /\ Len(tmp) >= lb + 1

\* the rows of a table that belong to one symbol
RowsOf(rows, sym) == SelectSeq(rows, LAMBDA r : r.Symbol = sym)

\* the symbols of a table, in row order
SymbolsOf(rows) == [i \in 1..Len(rows) |-> rows[i].Symbol]

\* a step that runs one monitoring cycle
CycleStep == pc = "idle" /\ pc' = "monitor"

\* C1: in the scan and in the monitoring cycle alike, a series with at least
\* lookback+1 complete bars has avg_volume = the mean volume of exactly the
\* lookback bars before the most recent bar, and rvol = current_volume /
\* avg_volume (read off the rows: AvgVolume = int(avg), RVOL = round(rvol)).
C1_AvgOverLookbackBars ==
    /\ pc = "scanner" =>
        \A i \in 1..Len(scan_results) :
            LET tmp == fetched[scan_results[i].Symbol].tmp
                avg == Mean(TrailingBars(tmp, lookback))
            IN  /\ scan_results[i].AvgVolume = Trunc(avg)
                /\ scan_results[i].RVOL = Round(RDiv(CurrentVolume(tmp), avg), RvolDigits)
    /\ pc = "monitor" =>
        \A i \in 1..Len(monitor_results) :
            LET tmp == fetched[monitor_results[i].Symbol].tmp
                avg == Mean(TrailingBars(tmp, lookback))
            IN  EnoughHistory(tmp, lookback) /\ RGt(avg, Zero) =>
                /\ monitor_results[i].AvgVol = Trunc(avg)
                /\ monitor_results[i].RVOL = Round(RDiv(CurrentVolume(tmp), avg), PctDigits)

\* the reading of the data model: valid iff there is enough history and the
\* trailing average volume is positive
ValidReading(got, lb) ==
    /\ got.reason = "ok"
    /\ EnoughHistory(got.tmp, lb)
    /\ RGt(Mean(TrailingBars(got.tmp, lb)), Zero)

\* rvol of the data model's reading
ReadingRvol(tmp, lb) == RDiv(CurrentVolume(tmp), Mean(TrailingBars(tmp, lb)))

\* the scanned symbol passes the filters on its reading
Qualifies(sym) ==
    /\ ValidReading(fetched[sym], lookback)
    /\ RLe(min_price, Price(fetched[sym].tmp[Len(fetched[sym].tmp)].Close))
    /\ RLe(Price(fetched[sym].tmp[Len(fetched[sym].tmp)].Close), max_price)
    /\ RGe(ReadingRvol(fetched[sym].tmp, lookback), min_rvol)

\* C8: the symbols of the scan's result set are exactly the input symbols
\* whose fetch succeeded, whose reading is valid and which pass the price and
\* rvol filters, once per occurrence in the input and in input order.
C8_ResultsAreTheQualifyingSymbols ==
    pc = "scanner" =>
        SymbolsOf(scan_results) = SelectSeq(symbols_to_scan, Qualifies)

\* the unrounded sort keys of a result row, as the scanner loop computed them
ExactPct(row) == PctChange(fetched[row.Symbol].tmp)
ExactRvol(row) ==
    RDiv(CurrentVolume(fetched[row.Symbol].tmp),
         ScanAvgVol(fetched[row.Symbol].tmp, lookback))

\* table is a reordering of rows that descends on the keys pct, then rvol, and
\* keeps rows equal on both in their order in rows
OrderedStably(table, rows, pct(_), rvol(_)) ==
    /\ Len(table) = Len(rows)
    /\ \E p \in [1..Len(rows) -> 1..Len(rows)] :
        /\ \A i, j \in 1..Len(rows) : i # j => p[i] # p[j]
        /\ \A i \in 1..Len(rows) : table[i] = rows[p[i]]
        /\ \A i, j \in 1..Len(rows) : i < j =>
            /\ RGe(pct(table[i]), pct(table[j]))
            /\ pct(table[i]) = pct(table[j]) => RGe(rvol(table[i]), rvol(table[j]))
            /\ pct(table[i]) = pct(table[j]) /\ rvol(table[i]) = rvol(table[j])
                => p[i] < p[j]

RowPct(row) == row.PctChange
RowRvol(row) == row.RVOL

NoBars(got) == got.tmp = <<>>

\* the symbol's snapshot entry is the same before and after the step
SnapshotKept(sym) ==
    /\ sym \in DOMAIN monitor_data <=> sym \in DOMAIN monitor_data'
    /\ sym \in DOMAIN monitor_data => monitor_data'[sym] = monitor_data[sym]

\* the reading of the data model is Invalid
InvalidReading(got, lb) ==
    \/ Len(got.tmp) < lb + 1
    \/ ~RGt(Mean(TrailingBars(got.tmp, lb)), Zero)

AvailableTrailingBars(tmp, lb) ==
    Slice(tmp, Len(tmp) - 1 - Min(Len(tmp) - 1, lb), Len(tmp) - 1)

\* the rvol the monitor stores for a series with at least one complete bar
StoredRvol(tmp, lb) ==
    LET avg == IF Len(tmp) = 1 THEN CurrentVolume(tmp)
               ELSE Mean(AvailableTrailingBars(tmp, lb))
    IN  IF RGt(avg, Zero) THEN RDiv(CurrentVolume(tmp), avg) ELSE Zero

NewPrice(sym) == Price(fetched'[sym].tmp[Len(fetched'[sym].tmp)].Close)
NewRvol(sym) == StoredRvol(fetched'[sym].tmp, lookback')

\* the trend that goes with a price change
TrendOf(d) == IF RGt(d, Zero) THEN "up" ELSE IF RLt(d, Zero) THEN "down" ELSE "-"

\* the symbol was Tracked before the step
TrackedBefore(sym) ==
    sym \in DOMAIN monitor_data /\ monitor_data[sym].price # None

\* C3: a cycle on a symbol with a Tracked snapshot reports delta_price_pct =
\* (new - old) / old * 100 and delta_rvol = new_rvol - old_rvol (the row shows
\* them rounded to 3 decimals) against the snapshot as the previous update
\* left it, trend up / down / neutral by the sign of the unrounded price
\* delta, and the snapshot afterwards holds the new reading; a symbol listed
\* twice is compared the second time against the reading just stored.
C3_DeltaAgainstPreviousSnapshot ==
    [][CycleStep =>
        \A sym \in Range(watchlist) :
            TrackedBefore(sym) /\ ~NoBars(fetched'[sym]) =>
                LET rows == RowsOf(monitor_results', sym)
                    old == monitor_data[sym]
                    d == RMul(RDiv(RSub(NewPrice(sym), old.price), old.price), RInt(100))
                IN  /\ rows # <<>>
                    /\ rows[1].DeltaPricePct = Round(d, PctDigits)
                    /\ rows[1].DeltaRVOL = Round(RSub(NewRvol(sym), old.rvol), PctDigits)
                    /\ rows[1].Trend = TrendOf(d)
                    /\ \A k \in 2..Len(rows) :
                        /\ rows[k].DeltaPricePct = Zero
                        /\ rows[k].DeltaRVOL = Zero
                        /\ rows[k].Trend = "-"
                    /\ monitor_data'[sym] =
                        [price |-> NewPrice(sym), rvol |-> NewRvol(sym),
                         last_checked |-> <<now'>>]]_vars

\* a second cycle that reports a falling price and a changed rvol
C3_Witness ==
    /\ pc = "monitor"
    /\ now = 2
    /\ \E i \in 1..Len(monitor_results) :
        /\ monitor_results[i].Trend = "down"
        /\ monitor_results[i].DeltaPricePct # None
        /\ RLt(monitor_results[i].DeltaPricePct, Zero)
        /\ monitor_results[i].DeltaRVOL # Zero

\* the symbol was Unseen before the step
UnseenBefore(sym) ==
    sym \notin DOMAIN monitor_data \/ monitor_data[sym].price = None

\* C4: the first cycle that observes an Unseen symbol reports (0, 0, neutral)
\* whatever price and rvol it computed, and leaves the symbol Tracked with
\* those values.
C4_FirstObservationIsNeutral ==
    [][CycleStep =>
        \A sym \in Range(watchlist) :
            UnseenBefore(sym) /\ ~NoBars(fetched'[sym]) =>
                LET rows == RowsOf(monitor_results', sym)
                IN  /\ rows # <<>>
                    /\ rows[1].DeltaPricePct = Zero
                    /\ rows[1].DeltaRVOL = Zero
                    /\ rows[1].Trend = "-"
                    /\ monitor_data'[sym].price = NewPrice(sym)
                    /\ monitor_data'[sym].rvol = NewRvol(sym)
                    /\ monitor_data'[sym].price # None
                    /\ monitor_data'[sym].rvol # None]_vars

\* the first cycle ever, observing a symbol with a non-zero rvol
C4_Witness ==
    /\ pc = "monitor"
    /\ now = 1
    /\ \E i \in 1..Len(monitor_results) :
        /\ monitor_results[i].RVOL # Zero
        /\ monitor_results[i].DeltaRVOL = Zero
        /\ monitor_data[monitor_results[i].Symbol].rvol # Zero

\* C5: whenever a symbol leaves the watchlist, by the remove control or by a
\* bulk update that drops it, its snapshot entry is deleted (so that a later
\* re-add starts from Unseen).
C5_LeavingDeletesSnapshot ==
    [][\A sym \in Symbols :
        sym \in Range(watchlist) /\ sym \notin Range(watchlist')
            => sym \notin DOMAIN monitor_data']_vars

\* C6: the watchlist never holds a symbol more than once.
C6_WatchlistHasNoDuplicates ==
    \A i, j \in 1..Len(watchlist) : i # j => watchlist[i] # watchlist[j]

\* C7: every symbol of the watchlist has an entry in monitor_data.
C7_WatchlistSymbolsHaveSnapshots ==
    Range(watchlist) \subseteq DOMAIN monitor_data

\* the fetch of the symbol failed, came back empty, or had no usable columns
FetchFailed(got) == got.reason \in {"NoData", "SchemaUnresolved"}

\* C9: a failed, empty or schema-unresolvable fetch for one watchlist symbol
\* does not stop the cycle: that symbol's snapshot stays as it was, it stays
\* in the watchlist (every cycle fetches every watchlist symbol, so the next
\* one tries it again), and every other watchlist symbol with bars still gets
\* its row and its snapshot update in this cycle.
C9_FailedFetchIsLocal ==
    [][CycleStep =>
        /\ DOMAIN fetched' = Range(watchlist)
        /\ watchlist' = watchlist
        /\ \A sym \in Range(watchlist) :
            FetchFailed(fetched'[sym]) =>
                /\ SnapshotKept(sym)
                /\ \A other \in Range(watchlist) \ {sym} :
                    ~NoBars(fetched'[other]) =>
                        /\ RowsOf(monitor_results', other) # <<>>
                        /\ other \in DOMAIN monitor_data'
                        /\ monitor_data'[other] =
                            [price |-> NewPrice(other), rvol |-> NewRvol(other),
                             last_checked |-> <<now'>>]]_vars

\* a cycle whose first symbol's fetch failed and whose second symbol got a row
C9_Witness ==
    /\ pc = "monitor"
    /\ Len(watchlist) = 2
    /\ watchlist[1] # watchlist[2]
    /\ FetchFailed(fetched[watchlist[1]])
    /\ RowsOf(monitor_results, watchlist[2]) # <<>>
    /\ monitor_data[watchlist[2]].last_checked = <<now>>

\* the snapshot of a symbol as the monitor reads it: its entry of
\* monitor_data, or the all-None entry if it has none
EntryOf(md, sym) == GetPrev(md, sym)

\* the symbol is Tracked: an earlier cycle stored a snapshot for it
Tracked(md, sym) == EntryOf(md, sym).last_checked # None

\* the step is a monitoring cycle that got at least one complete bar for sym
CycleWithReading(sym) ==
    /\ CycleStep
    /\ sym \in DOMAIN fetched'
    /\ ~NoBars(fetched'[sym])

\* C11: for a symbol that is in the watchlist before and after a step (take
\* over from the scanner, "Update Watchlist", "Entfernen", a scan, a cycle),
\* the snapshot entry changes only in a monitoring cycle that obtains a
\* reading for it; hence a Tracked symbol does not revert to Unseen while it
\* stays in the watchlist.
C11_SnapshotChangesOnlyByReading ==
    [][\A sym \in Symbols :
        (sym \in Range(watchlist) /\ sym \in Range(watchlist')) =>
            /\ EntryOf(monitor_data', sym) # EntryOf(monitor_data, sym)
                => CycleWithReading(sym)
            /\ Tracked(monitor_data, sym) => Tracked(monitor_data', sym)]_vars

====
